---------------------------- MODULE Spec2Model ----------------------------
(***************************************************************************)
(* A model of generate_test_sac.py: the SAC v1 encoder (build_sac), the    *)
(* three pattern generators and the entry point main.                      *)
(*                                                                         *)
(* Arrays are sequences of integers (a flattened, row-major numpy array);  *)
(* a 2-D array of shape (height, width) is a sequence of rows.  Bytes are  *)
(* integers in 0..255 and a byte string is a sequence of bytes.            *)
(***************************************************************************)
EXTENDS Integers, Sequences, FiniteSets, TLC

VARIABLES
    pc,        \* position of the modelled call or run
    a, b,      \* build_sac: the two array arguments
    width,     \* build_sac: the width argument
    height,    \* build_sac: the height argument
    ret,       \* build_sac: the outcome of the call (bytes or the exception)
    gen,       \* generators: [name, width, height, param] of the call
    out,       \* generators: the returned pair <<A, B>> of 2-D arrays
    inject,    \* main: the patterns whose generator output is made too short
    pil,       \* main: whether "from PIL import Image" succeeds
    fs,        \* main: the file system: [dir |-> BOOLEAN, files |-> name -> content]
    patterns,  \* main: the dict built at lines 97-101, a sequence of <<name, <<A, B>>>>
    idx,       \* main: the index of the next pattern of the for loop
    ops,       \* main: the file-system operations performed so far, in order
    stdout     \* main: the lines printed so far

vars == <<pc, a, b, width, height, ret, gen, out,
          inject, pil, fs, patterns, idx, ops, stdout>>

sacVars  == <<a, b, width, height, ret>>
genVars  == <<gen, out>>
mainVars == <<inject, pil, fs, patterns, idx, ops, stdout>>

-----------------------------------------------------------------------------
(* Bounds of the model. *)

\* Longest array handed to build_sac.
MaxLen == 2

\* Largest width and height handed to a pattern generator.
MaxW == 4
MaxH == 4

\* main's resolution (400 x 300 in the source), scaled down.
MainWidth == 4
MainHeight == 3

-----------------------------------------------------------------------------
(* Bytes and integer encodings. *)

Byte == 0..255

\* SAC_MAGIC = b"SAC1"
SAC_MAGIC == <<83, 65, 67, 49>>

\* DTYPE_INT16 = 1
DTYPE_INT16 == 1

\* The value an integer takes when stored as numpy int16: it wraps modulo 2^16.
ToInt16(v) == ((v + 32768) % 65536) - 32768

\* Variant of PackU32LE with the byte order reversed ('>I'); C2 must tell it
\* from the code.
PackU32BE(v) ==
    <<(v \div 16777216) % 256, (v \div 65536) % 256, (v \div 256) % 256, v % 256>>

\* struct's '<I': four bytes, least significant first.
PackU32LE(v) ==
    <<v % 256, (v \div 256) % 256, (v \div 65536) % 256, (v \div 16777216) % 256>>

\* Variant of I16Bytes with the most significant byte first; C4 must tell it
\* from the code.
I16BytesBE(v) ==
    LET u == v % 65536 IN <<u \div 256, u % 256>>

\* One int16 element in memory on a little-endian machine: two's complement,
\* least significant byte first.
I16Bytes(v) ==
    LET u == v % 65536 IN <<u % 256, u \div 256>>

\* ndarray.tobytes(order='C') of a flattened int16 array: the elements' bytes
\* in index order.
RECURSIVE tobytes(_)
tobytes(x) ==
    IF x = <<>> THEN <<>> ELSE I16Bytes(Head(x)) \o tobytes(Tail(x))

\* np.asarray(x, dtype=np.int16) followed by ascontiguousarray: every element
\* is cast to int16; making the array contiguous changes its memory layout, not
\* its elements or their row-major order.
to_c_contiguous_i16(x) == [i \in 1..Len(x) |-> ToInt16(x[i])]

\* Whether struct accepts v for an 'I' field.  The upper limit 2^32 - 1 is above
\* every integer of this model.
FitsU32(v) == v >= 0

\* Whether struct accepts v for a 'B' field.
FitsU8(v) == v \in Byte

Ok(bytes)       == [status |-> "ok", msg |-> "", bytes |-> bytes]
Raise(exc, msg) == [status |-> exc, msg |-> msg, bytes |-> <<>>]

\* struct.pack('<4sBBBBIIII', magic, flags, dtype_code, arrays_count, reserved,
\*             length_a, length_b, width, height): '<' packs the fields in order,
\* little-endian, with no alignment padding; a value outside its field's range
\* raises struct.error.
pack_4sBBBBIIII(magic, flags, dtype_code, arrays_count, reserved, length_a, length_b, w, h) ==
    IF /\ FitsU8(flags) /\ FitsU8(dtype_code)
       /\ FitsU8(arrays_count) /\ FitsU8(reserved)
       /\ FitsU32(length_a) /\ FitsU32(length_b) /\ FitsU32(w) /\ FitsU32(h)
    THEN Ok(magic \o <<flags, dtype_code, arrays_count, reserved>>
              \o PackU32LE(length_a) \o PackU32LE(length_b)
              \o PackU32LE(w) \o PackU32LE(h))
    ELSE Raise("struct.error", "argument out of range")

\* The size of the packed header: struct.calcsize('<4sBBBBIIII').
HEADER_SIZE == 4 + 4 * 1 + 4 * 4

\* Variant of build_sac that returns header + a.tobytes() and leaves B out; C1
\* must tell it from the code.
build_sac_without_b(x, y, w, h) ==
    LET a2 == to_c_contiguous_i16(x)
        b2 == to_c_contiguous_i16(y)
        header == pack_4sBBBBIIII(SAC_MAGIC, 0, DTYPE_INT16, 2, 0, Len(a2), Len(b2), w, h)
    IN  IF (w # 0 /\ h # 0) /\ Len(a2) # w * h
        THEN Raise("AssertionError", "A length != width*height")
        ELSE IF (w # 0 /\ h # 0) /\ Len(b2) # w * h
        THEN Raise("AssertionError", "B length != width*height")
        ELSE IF header.status # "ok"
        THEN header
        ELSE Ok(header.bytes \o tobytes(a2))

\* Variant of build_sac that checks the length of A only; C3 must tell it from
\* the code.
build_sac_unchecked_b(x, y, w, h) ==
    LET a2 == to_c_contiguous_i16(x)
        b2 == to_c_contiguous_i16(y)
        header == pack_4sBBBBIIII(SAC_MAGIC, 0, DTYPE_INT16, 2, 0, Len(a2), Len(b2), w, h)
    IN  IF (w # 0 /\ h # 0) /\ Len(a2) # w * h
        THEN Raise("AssertionError", "A length != width*height")
        ELSE IF header.status # "ok"
        THEN header
        ELSE Ok(header.bytes \o tobytes(a2) \o tobytes(b2))

\* Variant of build_sac that checks the lengths when width or height is
\* non-zero ("or" for "and"); C10 must tell it from the code.
build_sac_or(x, y, w, h) ==
    LET a2 == to_c_contiguous_i16(x)
        b2 == to_c_contiguous_i16(y)
        header == pack_4sBBBBIIII(SAC_MAGIC, 0, DTYPE_INT16, 2, 0, Len(a2), Len(b2), w, h)
    IN  IF (w # 0 \/ h # 0) /\ Len(a2) # w * h
        THEN Raise("AssertionError", "A length != width*height")
        ELSE IF (w # 0 \/ h # 0) /\ Len(b2) # w * h
        THEN Raise("AssertionError", "B length != width*height")
        ELSE IF header.status # "ok"
        THEN header
        ELSE Ok(header.bytes \o tobytes(a2) \o tobytes(b2))

\* build_sac(a, b, width, height)
build_sac(x, y, w, h) ==
    LET a2 == to_c_contiguous_i16(x)
        b2 == to_c_contiguous_i16(y)
        length_a == Len(a2)
        length_b == Len(b2)
        header == pack_4sBBBBIIII(SAC_MAGIC, 0, DTYPE_INT16, 2, 0,
                                  length_a, length_b, w, h)
    IN  IF (w # 0 /\ h # 0) /\ length_a # w * h
        THEN Raise("AssertionError", "A length != width*height")
        ELSE IF (w # 0 /\ h # 0) /\ length_b # w * h
        THEN Raise("AssertionError", "B length != width*height")
        ELSE IF header.status # "ok"
        THEN header
        ELSE Ok(header.bytes \o tobytes(a2) \o tobytes(b2))

-----------------------------------------------------------------------------
(* Calls of build_sac on bounded inputs. *)

\* Element values: in the int16 range (-2 is FE FF, 258 is 02 01 in memory) and
\* outside it (40000 wraps to -25536).
ElemValues == {-2, 258, 40000}

RECURSIVE SeqsUpTo(_, _)
SeqsUpTo(S, n) ==
    IF n = 0 THEN {<<>>}
    ELSE LET shorter == SeqsUpTo(S, n - 1)
         IN  shorter \cup {Append(s, v) : s \in {t \in shorter : Len(t) = n - 1}, v \in S}

Arrays == SeqsUpTo(ElemValues, MaxLen)

\* Width and height arguments: omitted (0), matching and mismatching small
\* values, a value that needs two header bytes, and a negative one.
Dims == (0..MaxLen) \cup {-1, 258}

NoRet == [status |-> "none", msg |-> "", bytes |-> <<>>]
NoGen == [name |-> "none", width |-> 0, height |-> 0, param |-> 0]

IdleSac == /\ a = <<>> /\ b = <<>> /\ width = 0 /\ height = 0 /\ ret = NoRet
IdleGen == /\ gen = NoGen /\ out = <<>>
IdleMain ==
    /\ inject = {} /\ pil = FALSE /\ fs = [dir |-> FALSE, files |-> <<>>]
    /\ patterns = <<>> /\ idx = 0 /\ ops = <<>> /\ stdout = <<>>

InitSac ==
    /\ pc = "call"
    /\ a \in Arrays /\ b \in Arrays
    /\ width \in Dims /\ height \in Dims
    /\ ret = NoRet
    /\ IdleGen /\ IdleMain

\* One call of build_sac, from entry to its return or its exception.
BuildSac ==
    /\ pc = "call"
    /\ ret' = build_sac(a, b, width, height)
    /\ pc' = "returned"
    /\ UNCHANGED <<a, b, width, height, genVars, mainVars>>

NextSac == BuildSac

SpecSac == InitSac /\ [][NextSac]_vars

-----------------------------------------------------------------------------
(* The pattern generators. *)

\* y, x = np.mgrid[0:height, 0:width]: an array of shape (height, width) is a
\* sequence of height rows of width elements.  Rows and columns are numbered
\* from 1 here: pixel (x, y) is the element [y + 1][x + 1].
mgrid_x(c) == c - 1
mgrid_y(r) == r - 1

\* ndarray.ravel() of a 2-D array: its rows one after the other.
RECURSIVE ravel(_)
ravel(m) == IF m = <<>> THEN <<>> ELSE Head(m) \o ravel(Tail(m))

\* A float converted by astype(np.int16), for the quotient n / d with d > 0:
\* truncated towards zero.
TruncDiv(n, d) == IF n >= 0 THEN n \div d ELSE -((-n) \div d)

\* The least n in 0..top with n * n * den >= num: the ceiling of
\* sqrt(num / den), for 0 <= num <= top * top * den.
CeilSqrt(num, den, top) ==
    CHOOSE n \in 0..top :
        /\ n * n * den >= num
        /\ n = 0 \/ (n - 1) * (n - 1) * den < num

\* One element of generate_radial_mask, for an integer intensity >= 0:
\* ((1 - dist / max_dist) * intensity).astype(np.int16), where
\* dist^2 = ((2x - width)^2 + (2y - height)^2) / 4 and
\* max_dist^2 = (width^2 + height^2) / 4.  The value truncated is
\* intensity - intensity * sqrt(dist^2 / max_dist^2), so the result is intensity
\* less the ceiling of that square root.  (In float64 a value that is exactly an
\* integer can come out one lower; that happens for no argument within this
\* model's bounds: the first are 6 x 6 at intensity 255 and 6 x 8 at 1000.)
radial_value(x, y, w, h, intensity) ==
    LET d2 == (2 * x - w) * (2 * x - w) + (2 * y - h) * (2 * y - h)
        m2 == w * w + h * h
    IN  ToInt16(intensity - CeilSqrt(intensity * intensity * d2, m2, intensity))

\* Variant of generate_radial_mask without the "1 -": dist / max_dist *
\* intensity, darkest at the center; C8 must tell it from the code.
generate_radial_mask_inverted(w, h, intensity) ==
    LET mask_intensity == [r \in 1..h |-> [c \in 1..w |->
            LET x == mgrid_x(c)  y == mgrid_y(r) IN intensity - radial_value(x, y, w, h, intensity)]]
    IN  <<mask_intensity, mask_intensity>>

\* generate_radial_mask(width, height, intensity): the same array twice.
generate_radial_mask(w, h, intensity) ==
    LET mask_intensity == [r \in 1..h |-> [c \in 1..w |->
            LET x == mgrid_x(c)  y == mgrid_y(r) IN radial_value(x, y, w, h, intensity)]]
    IN  <<mask_intensity, mask_intensity>>

\* Variant of generate_checkerboard_mask that leaves y out: vertical stripes;
\* C6 must tell it from the code.
generate_stripes_mask(w, h, square_size) ==
    LET checker == [r \in 1..h |-> [c \in 1..w |->
            LET x == mgrid_x(c)  y == mgrid_y(r) IN ToInt16(((x \div square_size) % 2) * 1000)]]
    IN  <<checker, checker>>

\* generate_checkerboard_mask(width, height, square_size), square_size > 0.
generate_checkerboard_mask(w, h, square_size) ==
    LET checker == [r \in 1..h |-> [c \in 1..w |->
            LET x == mgrid_x(c)  y == mgrid_y(r) IN ToInt16(((x \div square_size + y \div square_size) % 2) * 1000)]]
    IN  <<checker, checker>>

\* Variant of generate_gradient_mask whose B is a second horizontal ramp
\* (x / height for y / height); C7 must tell it from the code.
generate_gradient_mask_xx(w, h) ==
    LET ga == [r \in 1..h |-> [c \in 1..w |->
            LET x == mgrid_x(c)  y == mgrid_y(r) IN ToInt16(TruncDiv(2000 * x - 1000 * w, w))]]
        gb == [r \in 1..h |-> [c \in 1..w |->
            LET x == mgrid_x(c)  y == mgrid_y(r) IN ToInt16(TruncDiv(2000 * x - 1000 * h, h))]]
    IN  <<ga, gb>>

\* generate_gradient_mask(width, height): (x / width) * 2000 - 1000 and
\* (y / height) * 2000 - 1000, truncated.  (In float64 the value differs by one
\* from this quotient for a few x once width reaches 400; not within this
\* model's bounds.)
generate_gradient_mask(w, h) ==
    LET ga == [r \in 1..h |-> [c \in 1..w |->
            LET x == mgrid_x(c)  y == mgrid_y(r) IN ToInt16(TruncDiv(2000 * x - 1000 * w, w))]]
        gb == [r \in 1..h |-> [c \in 1..w |->
            LET x == mgrid_x(c)  y == mgrid_y(r) IN ToInt16(TruncDiv(2000 * y - 1000 * h, h))]]
    IN  <<ga, gb>>

\* The default intensity of generate_radial_mask and the default square_size of
\* generate_checkerboard_mask.
DefaultIntensity == 1000
DefaultSquareSize == 50

Intensities == {0, 1, 7, DefaultIntensity}
SquareSizes == (1..MaxW) \cup {DefaultSquareSize}

GenCalls ==
    [name : {"radial"}, width : 1..MaxW, height : 1..MaxH, param : Intensities]
    \cup [name : {"checkerboard"}, width : 1..MaxW, height : 1..MaxH, param : SquareSizes]
    \cup [name : {"gradient"}, width : 1..MaxW, height : 1..MaxH, param : {0}]

InitGen ==
    /\ pc = "call"
    /\ gen \in GenCalls
    /\ out = <<>>
    /\ IdleSac /\ IdleMain

GenerateRadial ==
    /\ pc = "call" /\ gen.name = "radial"
    /\ out' = generate_radial_mask(gen.width, gen.height, gen.param)
    /\ pc' = "returned"
    /\ UNCHANGED <<gen, sacVars, mainVars>>

GenerateCheckerboard ==
    /\ pc = "call" /\ gen.name = "checkerboard"
    /\ out' = generate_checkerboard_mask(gen.width, gen.height, gen.param)
    /\ pc' = "returned"
    /\ UNCHANGED <<gen, sacVars, mainVars>>

GenerateGradient ==
    /\ pc = "call" /\ gen.name = "gradient"
    /\ out' = generate_gradient_mask(gen.width, gen.height)
    /\ pc' = "returned"
    /\ UNCHANGED <<gen, sacVars, mainVars>>

NextGen == GenerateRadial \/ GenerateCheckerboard \/ GenerateGradient

SpecGen == InitGen /\ [][NextGen]_vars

-----------------------------------------------------------------------------
(* main: one run of the script, with the resolution MainWidth x MainHeight. *)
(* The file system and the import of PIL are the run's environment; its     *)
(* calls mkdir, open and write are taken to succeed.                        *)

PatternNames == <<"radial", "checkerboard", "gradient">>

\* output_dir / f"test_mask_{name}.sac" and output_dir / "test_image.png"
SacPath(name) ==
    CASE name = "radial"       -> "test_data/test_mask_radial.sac"
      [] name = "checkerboard" -> "test_data/test_mask_checkerboard.sac"
      [] name = "gradient"     -> "test_data/test_mask_gradient.sac"
ImagePath == "test_data/test_image.png"
Paths == {SacPath(PatternNames[i]) : i \in 1..3} \cup {ImagePath}

\* What a path of the output directory holds.
Absent == [kind |-> "absent", bytes |-> <<>>]
Stale  == [kind |-> "stale", bytes |-> <<>>]    \* left by an earlier run
Png    == [kind |-> "png", bytes |-> <<>>]      \* what pil_img.save writes
SacFile(bytes) == [kind |-> "sac", bytes |-> bytes]

MkdirOp     == [op |-> "mkdir", path |-> "test_data"]
WriteOp(p)  == [op |-> "write", path |-> p]

\* The hypothesis "encoding one pattern fails" cannot arise in main as written:
\* every generator returns height * width elements.  To exercise main's handling
\* of it, a pattern named in inject loses its last row before it enters the
\* dict; inject = {} is the script.
Faulted(name, pair) ==
    IF name \in inject
    THEN <<SubSeq(pair[1], 1, Len(pair[1]) - 1), SubSeq(pair[2], 1, Len(pair[2]) - 1)>>
    ELSE pair

\* Lines 86-94: the resolution, the first print, output_dir.mkdir(exist_ok=True).
Mkdir ==
    /\ pc = "start"
    /\ stdout' = Append(stdout, "Generating test SAC files...")
    /\ fs' = [fs EXCEPT !.dir = TRUE]
    /\ ops' = Append(ops, MkdirOp)
    /\ pc' = "patterns"
    /\ UNCHANGED <<inject, pil, patterns, idx, sacVars, genVars>>

\* Lines 97-101: the dict of the three patterns, in insertion order; all three
\* generators run before the loop starts.
GeneratePatterns ==
    /\ pc = "patterns"
    /\ patterns' =
          << <<"radial", Faulted("radial",
                   generate_radial_mask(MainWidth, MainHeight, DefaultIntensity))>>,
             <<"checkerboard", Faulted("checkerboard",
                   generate_checkerboard_mask(MainWidth, MainHeight, DefaultSquareSize))>>,
             <<"gradient", Faulted("gradient",
                   generate_gradient_mask(MainWidth, MainHeight))>> >>
    /\ idx' = 1
    /\ pc' = "loop"
    /\ UNCHANGED <<inject, pil, fs, ops, stdout, sacVars, genVars>>

\* Variant of WriteSac that catches the exception of build_sac and goes on with
\* the next pattern; C9 must tell it from the code.
WriteSacSkipping ==
    /\ pc = "loop"
    /\ LET name == patterns[idx][1]
           pair == patterns[idx][2]
           sac_bytes == build_sac(ravel(pair[1]), ravel(pair[2]), MainWidth, MainHeight)
       IN  /\ IF sac_bytes.status # "ok"
              THEN UNCHANGED <<fs, ops, stdout>>
              ELSE /\ fs' = [fs EXCEPT !.files[SacPath(name)] = SacFile(sac_bytes.bytes)]
                   /\ ops' = Append(ops, WriteOp(SacPath(name)))
                   /\ stdout' = Append(stdout, "Created " \o SacPath(name))
           /\ idx' = idx + 1
           /\ pc' = IF idx = Len(patterns) THEN "image" ELSE "loop"
    /\ UNCHANGED <<inject, pil, patterns, sacVars, genVars>>

\* Lines 103-110: one iteration of the for loop.  An exception of build_sac is
\* caught nowhere: it leaves the loop and main at line 104, before the file is
\* opened.
WriteSac ==
    /\ pc = "loop"
    /\ LET name == patterns[idx][1]
           pair == patterns[idx][2]
           sac_bytes == build_sac(ravel(pair[1]), ravel(pair[2]), MainWidth, MainHeight)
       IN  IF sac_bytes.status # "ok"
           THEN /\ pc' = "raised"
                /\ UNCHANGED <<fs, ops, stdout, idx>>
           ELSE /\ fs' = [fs EXCEPT !.files[SacPath(name)] = SacFile(sac_bytes.bytes)]
                /\ ops' = Append(ops, WriteOp(SacPath(name)))
                /\ stdout' = Append(stdout, "Created " \o SacPath(name))
                /\ idx' = idx + 1
                /\ pc' = IF idx = Len(patterns) THEN "image" ELSE "loop"
    /\ UNCHANGED <<inject, pil, patterns, sacVars, genVars>>

\* Variant of ImageStep without the except clause: the ImportError leaves main;
\* C5 must tell it from the code.
ImageStepUncaught ==
    /\ pc = "image"
    /\ IF pil
       THEN /\ fs' = [fs EXCEPT !.files[ImagePath] = Png]
            /\ ops' = Append(ops, WriteOp(ImagePath))
            /\ stdout' = stdout \o <<"Generating test image...", "Created " \o ImagePath>>
            /\ pc' = "finish"
       ELSE /\ stdout' = Append(stdout, "Generating test image...")
            /\ pc' = "raised"
            /\ UNCHANGED <<fs, ops>>
    /\ UNCHANGED <<inject, pil, patterns, idx, sacVars, genVars>>

\* Lines 112-132: the test image.  "from PIL import Image" raises ImportError
\* when PIL is not installed; the except clause prints and the run goes on.
ImageStep ==
    /\ pc = "image"
    /\ IF pil
       THEN /\ fs' = [fs EXCEPT !.files[ImagePath] = Png]
            /\ ops' = Append(ops, WriteOp(ImagePath))
            /\ stdout' = stdout \o <<"Generating test image...", "Created " \o ImagePath>>
       ELSE /\ stdout' = stdout \o <<"Generating test image...",
                                     "PIL not available, skipping test image generation",
                                     "  Install with: pip install Pillow">>
            /\ UNCHANGED <<fs, ops>>
    /\ pc' = "finish"
    /\ UNCHANGED <<inject, pil, patterns, idx, sacVars, genVars>>

\* Lines 134-135: the closing prints; main returns.
Finish ==
    /\ pc = "finish"
    /\ stdout' = stdout \o <<"Test files ready in ./test_data/",
                             "Upload test_image.png and any test_mask_*.sac to the test page!">>
    /\ pc' = "done"
    /\ UNCHANGED <<inject, pil, fs, patterns, idx, ops, sacVars, genVars>>

\* The environment a run starts in: test_data missing, or present with any of
\* the four files left by an earlier run; PIL installed or not.
InitEnv ==
    /\ pc = "start"
    /\ pil \in BOOLEAN
    /\ fs \in {[dir |-> FALSE, files |-> [p \in Paths |-> Absent]]}
              \cup [dir : {TRUE}, files : [Paths -> {Absent, Stale}]]
    /\ patterns = <<>> /\ idx = 0 /\ ops = <<>> /\ stdout = <<>>
    /\ IdleSac /\ IdleGen

InitMain == InitEnv /\ inject = {}

InitMainFault == InitEnv /\ inject \in SUBSET {PatternNames[i] : i \in 1..3}

NextMain == Mkdir \/ GeneratePatterns \/ WriteSac \/ ImageStep \/ Finish

\* The script.
SpecMain == InitMain /\ [][NextMain]_vars

\* The script with generator outputs of the wrong size injected.
SpecMainFault == InitMainFault /\ [][NextMain]_vars

-----------------------------------------------------------------------------
(* The encoder's claims, checked under SpecSac. *)

Returned == pc = "returned"
InInt16(x) == \A i \in 1..Len(x) : x[i] \in -32768..32767

\* An unsigned 32-bit little-endian field read back from offset off (0-based).
ReadU32LE(bytes, off) ==
    bytes[off + 1] + 256 * bytes[off + 2] + 65536 * bytes[off + 3]
        + 16777216 * bytes[off + 4]

\* A signed 16-bit little-endian value read back from offset off (0-based).
ReadI16LE(bytes, off) ==
    LET u == bytes[off + 1] + 256 * bytes[off + 2]
    IN  IF u >= 32768 THEN u - 65536 ELSE u

\* The reference decoder of the round trip: the two length fields from the
\* header, then length_a and length_b little-endian int16 values from the bytes
\* that follow the header; rest is the number of bytes left over (negative when
\* the bytes run out).
Decode(bytes) ==
    LET la == ReadU32LE(bytes, 8)
        lb == ReadU32LE(bytes, 12)
        data == HEADER_SIZE
    IN  [a |-> [i \in 1..la |-> ReadI16LE(bytes, data + 2 * (i - 1))],
         b |-> [i \in 1..lb |-> ReadI16LE(bytes, data + 2 * la + 2 * (i - 1))],
         rest |-> Len(bytes) - data - 2 * la - 2 * lb]

\* C1 as stated: with non-zero width and height, a returned byte string is
\* 20 + 2 * width * height * 2 bytes long.
C1_Original ==
    (Returned /\ ret.status = "ok" /\ width # 0 /\ height # 0)
        => Len(ret.bytes) = 20 + 2 * width * height * 2

\* C1 as amended: with non-zero width and height, a returned byte string is
\* 24 + 2 * width * height * 2 bytes long: the 24-byte header, then two int16
\* arrays of width * height elements each.
C1_Size ==
    (Returned /\ ret.status = "ok" /\ width # 0 /\ height # 0)
        => /\ Len(ret.bytes) = 24 + 2 * width * height * 2
           /\ Len(ret.bytes) - 24 = 2 * (2 * Len(a))
           /\ Len(a) = width * height /\ Len(b) = width * height

C1_Witness ==
    Returned /\ ret.status = "ok" /\ width = 2 /\ height = 1 /\ Len(ret.bytes) = 32

\* C2: every returned byte string begins "SAC1", flags 0, dtype code 1, array
\* count 2, reserved 0, then the unsigned 32-bit little-endian fields length of
\* A, length of B, width, height, back to back, holding the element counts of A
\* and B and the width and height passed.
C2_Header ==
    (Returned /\ ret.status = "ok")
        => /\ Len(ret.bytes) >= 24
           /\ SubSeq(ret.bytes, 1, 8) = <<83, 65, 67, 49, 0, 1, 2, 0>>
           /\ \A i \in 1..24 : ret.bytes[i] \in Byte
           /\ ReadU32LE(ret.bytes, 8) = Len(a)
           /\ ReadU32LE(ret.bytes, 12) = Len(b)
           /\ ReadU32LE(ret.bytes, 16) = width
           /\ ReadU32LE(ret.bytes, 20) = height

\* A width that needs its second byte, written least significant byte first.
C2_Witness ==
    /\ Returned /\ ret.status = "ok" /\ width = 258 /\ Len(a) = 2 /\ Len(b) = 1
    /\ SubSeq(ret.bytes, 17, 20) = <<2, 1, 0, 0>>

\* C3: with width and height both non-zero and the element count of A or of B
\* different from width * height, the call fails with the assertion and returns
\* no bytes; so a container returned with non-zero width and height has
\* length_a = length_b = width * height.
C3_Assertion ==
    /\ (Returned /\ width # 0 /\ height # 0
            /\ (Len(a) # width * height \/ Len(b) # width * height))
        => (ret.status = "AssertionError" /\ ret.bytes = <<>>)
    /\ (Returned /\ ret.status = "ok" /\ width # 0 /\ height # 0)
        => /\ ReadU32LE(ret.bytes, 8) = width * height
           /\ ReadU32LE(ret.bytes, 12) = width * height

\* Only B is of the wrong length.
C3_Witness ==
    /\ Returned /\ width = 1 /\ height = 2 /\ Len(a) = 2 /\ Len(b) = 1
    /\ ret.status = "AssertionError"

\* C4: for arrays of int16 values, the reference decoder gives back arrays of
\* the encoded lengths with the elements of A and of B in order, and no byte of
\* the output is left over.
C4_RoundTrip ==
    (Returned /\ ret.status = "ok" /\ InInt16(a) /\ InInt16(b))
        => Decode(ret.bytes) = [a |-> a, b |-> b, rest |-> 0]

C4_Witness ==
    /\ Returned /\ ret.status = "ok"
    /\ a = <<-2, 258>> /\ b = <<258>>
    /\ Decode(ret.bytes).b = <<258>>

\* C10 as stated: with width or height zero the call succeeds whatever the
\* lengths of A and B, the header records the lengths and the width and height
\* as passed, and the data section holds length_a + length_b elements.
C10_Original ==
    (Returned /\ (width = 0 \/ height = 0))
        => /\ ret.status = "ok"
           /\ ReadU32LE(ret.bytes, 8) = Len(a)
           /\ ReadU32LE(ret.bytes, 12) = Len(b)
           /\ ReadU32LE(ret.bytes, 16) = width
           /\ ReadU32LE(ret.bytes, 20) = height
           /\ Len(ret.bytes) - HEADER_SIZE = 2 * (Len(a) + Len(b))

\* C10 as amended: the same, provided the other dimension fits an unsigned
\* 32-bit field; a negative one makes struct.pack raise struct.error and the
\* call returns nothing.
C10_NoLengthCheck ==
    /\ (Returned /\ (width = 0 \/ height = 0) /\ width >= 0 /\ height >= 0)
        => /\ ret.status = "ok"
           /\ ReadU32LE(ret.bytes, 8) = Len(a)
           /\ ReadU32LE(ret.bytes, 12) = Len(b)
           /\ ReadU32LE(ret.bytes, 16) = width
           /\ ReadU32LE(ret.bytes, 20) = height
           /\ Len(ret.bytes) - HEADER_SIZE = 2 * (Len(a) + Len(b))
    /\ (Returned /\ (width = 0 \/ height = 0) /\ (width < 0 \/ height < 0))
        => (ret.status = "struct.error" /\ ret.bytes = <<>>)

\* Exactly one dimension zero, lengths that differ from each other and from
\* the other dimension.
C10_Witness ==
    /\ Returned /\ ret.status = "ok" /\ width = 2 /\ height = 0
    /\ Len(a) = 1 /\ Len(b) = 0

-----------------------------------------------------------------------------
(* The generators' claims, checked under SpecGen. *)

Pixel(m, x, y) == m[y + 1][x + 1]
Xs == 0..(gen.width - 1)
Ys == 0..(gen.height - 1)
Called(name) == Returned /\ gen.name = name

\* C6: generate_checkerboard_mask returns the same array twice; its value at
\* (x, y) is ((x // square_size + y // square_size) % 2) * 1000, so 0 or 1000;
\* (0, 0) and (square_size, square_size) hold equal values, (0, 0) holds 0 and
\* (square_size, 0) holds 1000, whenever those pixels are inside the array.
C6_Checkerboard ==
    Called("checkerboard") =>
        LET s == gen.param
            A == out[1]
        IN  /\ out[2] = A
            /\ Len(A) = gen.height /\ \A r \in 1..gen.height : Len(A[r]) = gen.width
            /\ \A x \in Xs, y \in Ys :
                  /\ Pixel(A, x, y) \in {0, 1000}
                  /\ Pixel(A, x, y) = ((x \div s + y \div s) % 2) * 1000
            /\ (s < gen.width /\ s < gen.height) => Pixel(A, 0, 0) = Pixel(A, s, s)
            /\ s < gen.width => (Pixel(A, 0, 0) = 0 /\ Pixel(A, s, 0) = 1000)

C6_Witness ==
    /\ Called("checkerboard") /\ gen.param = 2 /\ gen.width = 4 /\ gen.height = 3
    /\ Pixel(out[1], 2, 0) = 1000 /\ Pixel(out[1], 2, 2) = 0

\* The parts of C7 that hold for every positive width and height: A depends on
\* x alone and does not decrease along x, is -1000 at x = 0 and one ramp step
\* (2000 / width, rounded up) or less below +1000 at x = width - 1, with every
\* value in [-1000, 1000); B likewise along y.
GradientRamps ==
    LET A == out[1]
        B == out[2]
        w == gen.width
        h == gen.height
    IN  /\ \A x \in Xs, y \in Ys :
              /\ Pixel(A, x, y) = Pixel(A, x, 0)
              /\ Pixel(B, x, y) = Pixel(B, 0, y)
              /\ Pixel(A, x, y) >= -1000 /\ Pixel(A, x, y) < 1000
              /\ Pixel(B, x, y) >= -1000 /\ Pixel(B, x, y) < 1000
        /\ \A x1 \in Xs, x2 \in Xs : x1 < x2 => Pixel(A, x1, 0) <= Pixel(A, x2, 0)
        /\ \A y1 \in Ys, y2 \in Ys : y1 < y2 => Pixel(B, 0, y1) <= Pixel(B, 0, y2)
        /\ Pixel(A, 0, 0) = -1000 /\ Pixel(B, 0, 0) = -1000
        /\ 1000 - Pixel(A, w - 1, 0) <= (2000 + w - 1) \div w
        /\ 1000 - Pixel(B, 0, h - 1) <= (2000 + h - 1) \div h

\* C7 as stated: for positive width and height the ramps are as above and the
\* two arrays differ.
C7_Original ==
    Called("gradient") => (GradientRamps /\ out[1] # out[2])

\* C7 as amended: the ramps are as above, and the two arrays differ unless
\* width = height = 1, where both are the single value -1000.
C7_Gradient ==
    Called("gradient") =>
        /\ GradientRamps
        /\ (out[1] # out[2]) <=> (gen.width > 1 \/ gen.height > 1)
        /\ (gen.width = 1 /\ gen.height = 1) => (out[1] = <<<<-1000>>>> /\ out[2] = <<<<-1000>>>>)

C7_Witness ==
    /\ Called("gradient") /\ gen.width = 4 /\ gen.height = 2
    /\ out[1] = <<<<-1000, -500, 0, 500>>, <<-1000, -500, 0, 500>>>>
    /\ out[2] = <<<<-1000, -1000, -1000, -1000>>, <<0, 0, 0, 0>>>>

\* The parts of C8 that hold for every width and height: the same array twice,
\* 0 at the farthest corner (0, 0), every value between 0 and intensity.
RadialShape ==
    LET A == out[1]
    IN  /\ out[2] = A
        /\ Pixel(A, 0, 0) = 0
        /\ \A x \in Xs, y \in Ys : Pixel(A, x, y) >= 0 /\ Pixel(A, x, y) <= gen.param

\* C8 as stated: the value at the center pixel (width // 2, height // 2) equals
\* the intensity, the farthest corner holds 0, every value lies between 0 and
\* the intensity, and the two arrays are the same.
C8_Original ==
    Called("radial") =>
        /\ RadialShape
        /\ Pixel(out[1], gen.width \div 2, gen.height \div 2) = gen.param

\* C8 as amended: the center value equals the intensity when width and height
\* are both even, so that a pixel lies at the center (width / 2, height / 2);
\* with an odd width or height no pixel does, and for a positive intensity every
\* value is below it.
C8_Radial ==
    Called("radial") =>
        /\ RadialShape
        /\ (gen.width % 2 = 0 /\ gen.height % 2 = 0)
              => Pixel(out[1], gen.width \div 2, gen.height \div 2) = gen.param
        /\ ((gen.width % 2 = 1 \/ gen.height % 2 = 1) /\ gen.param > 0)
              => \A x \in Xs, y \in Ys : Pixel(out[1], x, y) < gen.param

C8_Witness ==
    /\ Called("radial") /\ gen.width = 4 /\ gen.height = 2 /\ gen.param = 1000
    /\ Pixel(out[1], 2, 1) = 1000 /\ Pixel(out[1], 0, 0) = 0
    /\ Pixel(out[1], 1, 1) > 0 /\ Pixel(out[1], 1, 1) < 1000

-----------------------------------------------------------------------------
(* The claims about main, checked under SpecMain and SpecMainFault. *)

Printed(line) == \E i \in 1..Len(stdout) : stdout[i] = line
Wrote(p) == \E i \in 1..Len(ops) : ops[i] = WriteOp(p)
SacPaths == <<SacPath("radial"), SacPath("checkerboard"), SacPath("gradient")>>
ImageAttempted == Printed("Generating test image...")

\* The paths written so far, in order.
WrittenPaths == [i \in 1..(Len(ops) - 1) |-> ops[i + 1].path]

\* C5: when PIL is not available the run does not fail: it never ends in an
\* uncaught exception and can always go on until it is done; once past the image
\* step it has reported the skip, the three SAC files are written and
\* test_image.png is not.
C5_ImageBestEffort ==
    (pc \in {"start", "patterns", "loop", "image", "finish", "done", "raised"} /\ ~pil)
        => /\ pc # "raised"
           /\ pc = "done" \/ ENABLED NextMain
           /\ ~Wrote(ImagePath)
           /\ pc \in {"finish", "done"}
                => /\ Printed("PIL not available, skipping test image generation")
                   /\ \A i \in 1..3 : Wrote(SacPaths[i]) /\ fs.files[SacPaths[i]].kind = "sac"
                   /\ fs.files[ImagePath] \in {Absent, Stale}
           /\ pc = "done"
                => Printed("Test files ready in ./test_data/")

C5_Witness ==
    /\ ~pil /\ pc = "done"
    /\ Printed("PIL not available, skipping test image generation")
    /\ fs.files[ImagePath] = Absent
    /\ fs.files[SacPath("gradient")].kind = "sac"

\* The run has stopped in the uncaught AssertionError of pattern number idx.
Aborted == pc = "raised"

\* C9: the directory is created before any file is written; the SAC files are
\* written one at a time in the order radial, checkerboard, gradient; the image
\* step is attempted only after all three.  If encoding a pattern fails, the run
\* stops there: nothing more can happen (no retry, no cleanup), that pattern and
\* the later ones are not written, the image step is not attempted, and the files
\* of the earlier patterns are in place.
C9_OrderAndAbort ==
    (pc \in {"start", "patterns", "loop", "image", "finish", "done", "raised"})
        => /\ ops # <<>> => (ops[1] = MkdirOp /\ fs.dir)
           /\ \A i \in 2..Len(ops) : ops[i].op = "write"
           /\ \E n \in 0..4 : WrittenPaths = SubSeq(SacPaths \o <<ImagePath>>, 1, n)
           /\ pc = "loop" => Len(WrittenPaths) = idx - 1
           /\ ImageAttempted => \A i \in 1..3 : Wrote(SacPaths[i])
           /\ Aborted
                => /\ ~ENABLED NextMain
                   /\ PatternNames[idx] \in inject
                   /\ WrittenPaths = SubSeq(SacPaths, 1, idx - 1)
                   /\ ~ImageAttempted
                   /\ \A i \in 1..3 :
                        IF i < idx
                        THEN fs.files[SacPaths[i]].kind = "sac"
                        ELSE fs.files[SacPaths[i]] \in {Absent, Stale}
                   /\ fs.files[ImagePath] \in {Absent, Stale}

\* The second pattern fails: the first file is in place, nothing else is written.
C9_Witness ==
    /\ Aborted /\ idx = 2
    /\ ops = <<MkdirOp, WriteOp(SacPath("radial"))>>
    /\ fs.files[SacPath("radial")].kind = "sac"
    /\ fs.files[SacPath("gradient")] = Stale

=============================================================================
